---------------------------- MODULE Spec2Model ----------------------------
(***************************************************************************)
(* A model of the chess-vision calibration pipeline:                       *)
(*   calibration/calibration.py  - geometry selection + intrinsics solver  *)
(*   calibration/manual_warp.py  - interactive rectification session       *)
(*   calibration/grid_slice.py   - grid decomposition into named crops     *)
(* Each script is a sequential program; each has its own specification     *)
(* (SpecCalib, SpecWarp, SpecGrid) over its own variables.                 *)
(***************************************************************************)
EXTENDS Integers, Sequences, FiniteSets, TLC

(***************************************************************************)
(* Bounds of the model                                                     *)
(***************************************************************************)
\* longest list of calibration images matched by the glob
MaxImages == 3
\* largest pixel coordinate of a mouse click
MaxCoord == 1
\* largest of the small values given to the OUTPUT_SIZE setting
MaxSize == 3
\* largest of the small values given to the MARGIN_PX setting
MaxMargin == 1
\* widest of the small board regions (image side minus both margins)
MaxBoard == 12

\* Python's None, where a pattern or a list is expected
NoneVal == << >>

\* no exception raised
NoError == "None"

\* OUTPUT_FILE before np.savez has written it
NoArtifact == [ exists |-> FALSE ]

(***************************************************************************)
(* calibration.py : settings                                               *)
(***************************************************************************)
PATTERNS_TO_TRY == << <<7, 7>>, <<8, 8>>, <<9, 6>>, <<10, 7>>, <<11, 8>> >>

\* the number of samples `good` is compared with before the fit
MIN_SAMPLES == 3

Range(s) == { s[i] : i \in 1..Len(s) }

\* values FORCE_PATTERN is set to: None, or a pattern (of the list or not)
ForceChoices == {NoneVal} \cup Range(PATTERNS_TO_TRY) \cup { <<6, 9>> }

\* the list `patterns` main() works with
PatternsFor(f) == IF f # NoneVal THEN << f >> ELSE PATTERNS_TO_TRY

\* The outcomes of detection on one image are modelled for the patterns the
\* run can try; an image shows at most two of them.
DetectSets(f) ==
    LET c == Range(PatternsFor(f))
    IN  { s \in SUBSET c : \E p \in c, q \in c : s \subseteq {p, q} }

\* an image file: whether cv2.imread can read it, and the patterns
\* try_find_corners finds on it (none on a file that cannot be read)
ImageFiles(f) ==
    { [readable |-> FALSE, found |-> {}] }
      \cup { [readable |-> TRUE, found |-> s] : s \in DetectSets(f) }

RECURSIVE SeqsUpTo(_, _)
SeqsUpTo(S, n) ==
    IF n = 0 THEN { << >> }
    ELSE LET shorter == SeqsUpTo(S, n - 1)
         IN  shorter \cup { Append(q, x) : q \in { r \in shorter : Len(r) = n - 1 }, x \in S }

(***************************************************************************)
(* manual_warp.py and grid_slice.py : settings                             *)
(***************************************************************************)
OUTPUT_SIZE == 1024
MARGIN_PX == 136

\* the key codes main() compares `key` with; 255 is waitKey's -1 (no key
\* pressed within the 20 ms) after `& 0xFF`
ORD_Q == 113
ORD_R == 114
KEY_CR == 13
KEY_LF == 10
NO_KEY == 255

\* OUT_WARPED before cv2.imwrite has written it
NoFile == [ exists |-> FALSE ]

VARIABLES
    \* ---- calibration.py ----
    FORCE_PATTERN,    \* the setting: None or a pattern
    images,           \* sorted(glob.glob(IMAGE_GLOB)): the image files, in order
    cpc,              \* position of main(): start, first_pass, second_pass,
                      \*   fit, save, done, failed (idle: the script is not run)
    err,              \* the RuntimeError main() ended with, or None
    patterns,         \* local `patterns`
    pattern_success,  \* local dict `pattern_success`
    idx,              \* index of the image the running loop is at
    tried,            \* (image index, pattern) pairs given to try_find_corners in the first pass
    pattern,          \* local `pattern` after selection
    imgpoints,        \* indices of the images whose corners were appended
    good,             \* local `good`
    fit_input,        \* the samples calibrateCamera was called with, or None
    fit_calls,        \* number of calls of cv2.calibrateCamera
    artifact,         \* content of OUTPUT_FILE, or None when not written
    save_count,       \* number of calls of np.savez
    \* ---- manual_warp.py ----
    w_size,           \* the OUTPUT_SIZE setting of manual_warp.py
    w_margin,         \* the MARGIN_PX setting of manual_warp.py
    wpc,              \* position of main(): start, wait (in cv2.waitKey),
                      \*   handle (key read), quit, warped, failed
    clicked,          \* global `clicked`
    key,              \* local `key`
    H_calls,          \* number of calls of cv2.getPerspectiveTransform
    dst,              \* local `dst` of the last transform, or None
    out_warped,       \* content of OUT_WARPED
    out_writes,       \* number of calls of cv2.imwrite
    need_msg,         \* "Need exactly 4 clicks" has been printed
    \* ---- grid_slice.py ----
    g_margin,         \* the MARGIN_PX setting of grid_slice.py
    warped_image,     \* the file WARPED_IMAGE: readable, w, h
    gpc,              \* position of main(): start, slicing, overlay, done, failed
    file_idx,         \* outer loop variable
    rank_idx,         \* inner loop variable
    crops,            \* the files of OUT_DIR: name -> the crop written last
    crop_writes,      \* number of calls of cv2.imwrite on a crop
    overlay_written   \* OUT_OVERLAY has been written

calibVars == << FORCE_PATTERN, images, cpc, err, patterns, pattern_success, idx,
                tried, pattern, imgpoints, good, fit_input, fit_calls, artifact,
                save_count >>

warpVars == << w_size, w_margin, wpc, clicked, key, H_calls, dst, out_warped,
               out_writes, need_msg >>

gridVars == << g_margin, warped_image, gpc, file_idx, rank_idx, crops,
               crop_writes, overlay_written >>

vars == << calibVars, warpVars, gridVars >>

(***************************************************************************)
(* calibration.py : helpers                                                *)
(***************************************************************************)
\* try_find_corners(gray, pattern): found by the SB detector or by the
\* classical fallback; `found` holds the patterns one of the two finds
try_find_corners(img, p) == p \in img.found

\* index of the first pattern of ps, from position k on, found on img; 0 if none
RECURSIVE FirstFoundFrom_LastFound(_, _, _)
FirstFoundFrom_LastFound(img, ps, k) ==
    IF k > Len(ps) THEN 0
    ELSE LET later == FirstFoundFrom_LastFound(img, ps, k + 1)
         IN  IF later # 0 THEN later
             ELSE IF try_find_corners(img, ps[k]) THEN k ELSE 0
RECURSIVE FirstFoundFrom(_, _, _)
FirstFoundFrom(img, ps, k) ==
    IF k > Len(ps) THEN 0
    ELSE IF try_find_corners(img, ps[k]) THEN k
    ELSE FirstFoundFrom(img, ps, k + 1)

\* max(pattern_success, key=lambda p: pattern_success[p]): the dict is
\* iterated in insertion order (the order of `patterns`) and an element
\* replaces the running maximum only when its key is strictly greater
RECURSIVE PyMaxFrom_LastWins(_, _, _, _)
PyMaxFrom_LastWins(ps, succ, k, best) ==
    IF k > Len(ps) THEN best
    ELSE IF succ[ps[k]] >= succ[best] THEN PyMaxFrom_LastWins(ps, succ, k + 1, ps[k])
    ELSE PyMaxFrom_LastWins(ps, succ, k + 1, best)
RECURSIVE PyMaxFrom(_, _, _, _)
PyMaxFrom(ps, succ, k, best) ==
    IF k > Len(ps) THEN best
    ELSE IF succ[ps[k]] > succ[best] THEN PyMaxFrom(ps, succ, k + 1, ps[k])
    ELSE PyMaxFrom(ps, succ, k + 1, best)

PyMax(ps, succ) == PyMaxFrom(ps, succ, 2, ps[1])

\* line 111: the best pattern was found on no image
NoneDetected_Negative(succ, best) == succ[best] < 0
NoneDetected(succ, best) == succ[best] = 0

\* line 121: the forced pattern was found on no image
ForcedNotDetected_Negative(succ, p) == succ[p] < 0
ForcedNotDetected(succ, p) == succ[p] = 0

\* line 153: too few samples for the fit
TooFewSamples_OffByOne(g) == g < MIN_SAMPLES - 1
TooFewSamples(g) == g < MIN_SAMPLES

\* lines 156-164: np.savez is reached once calibrateCamera has returned
SaveReady_Finally == cpc \in { "save", "failed" }
SaveReady == cpc = "save"

(***************************************************************************)
(* calibration.py : main()                                                 *)
(***************************************************************************)
InitCalib ==
    /\ FORCE_PATTERN \in ForceChoices
    /\ images \in SeqsUpTo(ImageFiles(FORCE_PATTERN), MaxImages)
    /\ cpc = "start"
    /\ err = NoError
    /\ patterns = << >>
    /\ pattern_success = << >>
    /\ idx = 0
    /\ tried = {}
    /\ pattern = NoneVal
    /\ imgpoints = << >>
    /\ good = 0
    /\ fit_input = NoneVal
    /\ fit_calls = 0
    /\ artifact = NoArtifact
    /\ save_count = 0
    /\ w_size = OUTPUT_SIZE
    /\ w_margin = MARGIN_PX
    /\ wpc = "idle"
    /\ clicked = << >>
    /\ key = NO_KEY
    /\ H_calls = 0
    /\ dst = NoneVal
    /\ out_warped = NoFile
    /\ out_writes = 0
    /\ need_msg = FALSE
    /\ g_margin = MARGIN_PX
    /\ warped_image = [ readable |-> FALSE, w |-> 0, h |-> 0 ]
    /\ gpc = "idle"
    /\ file_idx = 0
    /\ rank_idx = 0
    /\ crops = << >>
    /\ crop_writes = 0
    /\ overlay_written = FALSE

\* lines 56-76: the input checks, the choice of `patterns`, the empty tally
Start ==
    /\ cpc = "start"
    /\ IF images = << >>
       THEN /\ cpc' = "failed"
            /\ err' = "NoImages"
            /\ UNCHANGED << patterns, pattern_success, idx >>
       ELSE IF ~ images[1].readable
       THEN /\ cpc' = "failed"
            /\ err' = "FirstImageUnreadable"
            /\ UNCHANGED << patterns, pattern_success, idx >>
       ELSE /\ cpc' = "first_pass"
            /\ patterns' = PatternsFor(FORCE_PATTERN)
            /\ pattern_success' = [ p \in Range(PatternsFor(FORCE_PATTERN)) |-> 0 ]
            /\ idx' = 1
            /\ err' = err
    /\ UNCHANGED << warpVars, gridVars, FORCE_PATTERN, images, tried, pattern, imgpoints, good,
                    fit_input, fit_calls, artifact, save_count >>

\* lines 78-102: one iteration of the first loop over the images
TallyImage_NoBreak ==
    /\ cpc = "first_pass"
    /\ idx <= Len(images)
    /\ LET img == images[idx]
       IN  IF ~ img.readable
           THEN UNCHANGED << pattern_success, tried >>
           ELSE /\ tried' = tried \cup { << idx, patterns[j] >> : j \in 1..Len(patterns) }
                /\ pattern_success' =
                     [ p \in DOMAIN pattern_success |->
                         IF try_find_corners(img, p)
                         THEN pattern_success[p] + 1
                         ELSE pattern_success[p] ]
    /\ idx' = idx + 1
    /\ UNCHANGED << warpVars, gridVars, FORCE_PATTERN, images, cpc, err, patterns,
                    pattern, imgpoints, good, fit_input, fit_calls, artifact,
                    save_count >>
TallyImage ==
    /\ cpc = "first_pass"
    /\ idx <= Len(images)
    /\ LET img == images[idx]
           k   == FirstFoundFrom(img, patterns, 1)
           upto == IF k = 0 THEN Len(patterns) ELSE k
       IN  IF ~ img.readable
           THEN UNCHANGED << pattern_success, tried >>
           ELSE /\ tried' = tried \cup { << idx, patterns[j] >> : j \in 1..upto }
                /\ IF k = 0
                   THEN pattern_success' = pattern_success
                   ELSE pattern_success' =
                          [ pattern_success EXCEPT ![patterns[k]] = @ + 1 ]
    /\ idx' = idx + 1
    /\ UNCHANGED << warpVars, gridVars, FORCE_PATTERN, images, cpc, err, patterns, pattern, imgpoints,
                    good, fit_input, fit_calls, artifact, save_count >>

\* lines 104-125: the choice of the pattern once the first loop has ended
SelectPattern ==
    /\ cpc = "first_pass"
    /\ idx > Len(images)
    /\ IF FORCE_PATTERN = NoneVal
       THEN LET best_pattern == PyMax(patterns, pattern_success)
            IN  IF NoneDetected(pattern_success, best_pattern)
                THEN /\ cpc' = "failed"
                     /\ err' = "DetectionExhausted"
                     /\ UNCHANGED << pattern, idx >>
                ELSE /\ pattern' = best_pattern
                     /\ cpc' = "second_pass"
                     /\ idx' = 1
                     /\ err' = err
       ELSE /\ pattern' = FORCE_PATTERN
            /\ IF ForcedNotDetected(pattern_success, FORCE_PATTERN)
               THEN /\ cpc' = "failed"
                    /\ err' = "ForcedGeometryFailed"
                    /\ idx' = idx
               ELSE /\ cpc' = "second_pass"
                    /\ idx' = 1
                    /\ err' = err
    /\ UNCHANGED << warpVars, gridVars, FORCE_PATTERN, images, patterns, pattern_success, tried,
                    imgpoints, good, fit_input, fit_calls, artifact, save_count >>

\* lines 136-151: one iteration of the second loop over the images
CollectImage ==
    /\ cpc = "second_pass"
    /\ idx <= Len(images)
    /\ LET img == images[idx]
       IN  IF img.readable /\ try_find_corners(img, pattern)
           THEN /\ imgpoints' = Append(imgpoints, idx)
                /\ good' = good + 1
           ELSE UNCHANGED << imgpoints, good >>
    /\ idx' = idx + 1
    /\ UNCHANGED << warpVars, gridVars, FORCE_PATTERN, images, cpc, err, patterns, pattern_success,
                    tried, pattern, fit_input, fit_calls, artifact, save_count >>

\* lines 153-154: the check of the number of samples after the second loop
CheckSamples ==
    /\ cpc = "second_pass"
    /\ idx > Len(images)
    /\ IF TooFewSamples(good)
       THEN /\ cpc' = "failed"
            /\ err' = "InsufficientSamples"
       ELSE /\ cpc' = "fit"
            /\ err' = err
    /\ UNCHANGED << warpVars, gridVars, FORCE_PATTERN, images, patterns, pattern_success, idx, tried,
                    pattern, imgpoints, good, fit_input, fit_calls, artifact,
                    save_count >>

\* lines 156-158: the one call of cv2.calibrateCamera, on all the samples
Fit ==
    /\ cpc = "fit"
    /\ fit_input' = imgpoints
    /\ fit_calls' = fit_calls + 1
    /\ cpc' = "save"
    /\ UNCHANGED << warpVars, gridVars, FORCE_PATTERN, images, err, patterns, pattern_success, idx,
                    tried, pattern, imgpoints, good, artifact, save_count >>

\* lines 164-173: np.savez of the calibration artifact
Save ==
    /\ SaveReady
    /\ artifact' = [ exists |-> TRUE, checkerboard |-> pattern, samples |-> fit_input ]
    /\ save_count' = save_count + 1
    /\ cpc' = "done"
    /\ UNCHANGED << warpVars, gridVars, FORCE_PATTERN, images, err, patterns, pattern_success, idx,
                    tried, pattern, imgpoints, good, fit_input, fit_calls >>

(***************************************************************************)
(* manual_warp.py                                                          *)
(***************************************************************************)
Keys == { ORD_Q, ORD_R, KEY_CR, KEY_LF, NO_KEY }

MouseEvents == { "EVENT_LBUTTONDOWN", "EVENT_MOUSEMOVE" }

\* the pixel a mouse event is at
Coords == 0..MaxCoord

\* the pairs of settings (OUTPUT_SIZE, MARGIN_PX): the ones of the
\* repository, and small ones
Settings ==
    { << OUTPUT_SIZE, MARGIN_PX >> }
      \cup { << S, m >> : S \in 1..MaxSize, m \in 0..MaxMargin }

\* line 73: the click buffer does not hold exactly 4 points
InvalidClickCount_Never(c) == Len(c) > 4
InvalidClickCount(c) == Len(c) # 4

\* lines 79-88: the destination quadrilateral, TL, TR, BR, BL
DstQuad_FullSize(S, m) ==
    << << m, m >>, << S - m, m >>, << S - m, S - m >>, << m, S - m >> >>
DstQuad(S, m) ==
    LET s == S - 1
    IN  << << m, m >>, << s - m, m >>, << s - m, s - m >>, << m, s - m >> >>

InitWarp ==
    /\ \E c \in Settings : w_size = c[1] /\ w_margin = c[2]
    /\ wpc = "start"
    /\ clicked = << >>
    /\ key = NO_KEY
    /\ H_calls = 0
    /\ dst = NoneVal
    /\ out_warped = NoFile
    /\ out_writes = 0
    /\ need_msg = FALSE
    /\ FORCE_PATTERN = NoneVal
    /\ images = << >>
    /\ cpc = "idle"
    /\ err = NoError
    /\ patterns = << >>
    /\ pattern_success = << >>
    /\ idx = 0
    /\ tried = {}
    /\ pattern = NoneVal
    /\ imgpoints = << >>
    /\ good = 0
    /\ fit_input = NoneVal
    /\ fit_calls = 0
    /\ artifact = NoArtifact
    /\ save_count = 0
    /\ g_margin = MARGIN_PX
    /\ warped_image = [ readable |-> FALSE, w |-> 0, h |-> 0 ]
    /\ gpc = "idle"
    /\ file_idx = 0
    /\ rank_idx = 0
    /\ crops = << >>
    /\ crop_writes = 0
    /\ overlay_written = FALSE

\* lines 20-35 and 53-59: load_and_maybe_undistort raises when the image
\* cannot be read; otherwise the window is set up and the loop entered
LoadImage ==
    /\ wpc = "start"
    /\ \E readable \in BOOLEAN :
          wpc' = IF readable THEN "wait" ELSE "failed"
    /\ UNCHANGED << calibVars, gridVars, w_size, w_margin, clicked, key, H_calls,
                    dst, out_warped, out_writes, need_msg >>

\* lines 45-50: the mouse callback, run while main() is in cv2.waitKey
mouse_cb_NoCap ==
    /\ wpc = "wait"
    /\ \E event \in MouseEvents, x \in Coords, y \in Coords :
          IF event = "EVENT_LBUTTONDOWN" /\ Len(clicked) <= 4
          THEN clicked' = Append(clicked, << x, y >>)
          ELSE clicked' = clicked
    /\ UNCHANGED << calibVars, gridVars, w_size, w_margin, wpc, key, H_calls, dst,
                    out_warped, out_writes, need_msg >>
mouse_cb ==
    /\ wpc = "wait"
    /\ \E event \in MouseEvents, x \in Coords, y \in Coords :
          IF event = "EVENT_LBUTTONDOWN" /\ Len(clicked) < 4
          THEN clicked' = Append(clicked, << x, y >>)
          ELSE clicked' = clicked
    /\ UNCHANGED << calibVars, gridVars, w_size, w_margin, wpc, key, H_calls, dst,
                    out_warped, out_writes, need_msg >>

\* lines 62-63: cv2.waitKey returns
WaitKey ==
    /\ wpc = "wait"
    /\ \E k \in Keys : key' = k
    /\ wpc' = "handle"
    /\ UNCHANGED << calibVars, gridVars, w_size, w_margin, clicked, H_calls, dst,
                    out_warped, out_writes, need_msg >>

\* lines 65-99: the rest of one iteration of the loop, on the key read
HandleKey ==
    /\ wpc = "handle"
    /\ IF key = ORD_Q
       THEN /\ wpc' = "quit"
            /\ UNCHANGED << clicked, H_calls, dst, out_warped, out_writes, need_msg >>
       ELSE IF key = ORD_R
       THEN /\ clicked' = << >>
            /\ wpc' = "wait"
            /\ UNCHANGED << H_calls, dst, out_warped, out_writes, need_msg >>
       ELSE IF key = KEY_CR \/ key = KEY_LF
       THEN IF InvalidClickCount(clicked)
            THEN /\ need_msg' = TRUE
                 /\ wpc' = "wait"
                 /\ UNCHANGED << clicked, H_calls, dst, out_warped, out_writes >>
            ELSE /\ dst' = DstQuad(w_size, w_margin)
                 /\ H_calls' = H_calls + 1
                 /\ out_warped' = [ exists |-> TRUE,
                                    src |-> clicked,
                                    dst |-> DstQuad(w_size, w_margin),
                                    size |-> << w_size, w_size >> ]
                 /\ out_writes' = out_writes + 1
                 /\ wpc' = "warped"
                 /\ UNCHANGED << clicked, need_msg >>
       ELSE /\ wpc' = "wait"
            /\ UNCHANGED << clicked, H_calls, dst, out_warped, out_writes, need_msg >>
    /\ UNCHANGED << calibVars, gridVars, w_size, w_margin, key >>

(***************************************************************************)
(* grid_slice.py                                                           *)
(***************************************************************************)
BOARD_N == 8

FileChars == << "a", "b", "c", "d", "e", "f", "g", "h" >>
Digits == << "1", "2", "3", "4", "5", "6", "7", "8" >>

\* chr(ord('a') + k)
Chr(k) == FileChars[k + 1]

\* str(n), for the n that have one digit
Str(n) == Digits[n]

\* lines 20-36
square_name_NoSwap(f, r) ==
    LET real_file_idx == (BOARD_N - 1) - r
        real_rank_idx == r
        file_char == Chr(real_file_idx)
        rank_char == Str(real_rank_idx + 1)
    IN  file_char \o rank_char
square_name(f, r) ==
    LET real_file_idx == (BOARD_N - 1) - r
        real_rank_idx == f
        file_char == Chr(real_file_idx)
        rank_char == Str(real_rank_idx + 1)
    IN  file_char \o rank_char

\* int(round(num / den)) for den > 0: Python rounds a half to the even neighbour
RoundHalfEven(num, den) ==
    LET q == num \div den
        r == num % den
    IN  IF 2 * r < den THEN q
        ELSE IF 2 * r > den THEN q + 1
        ELSE IF q % 2 = 0 THEN q
        ELSE q + 1

\* lines 51-62: the board region inside the margin. step_x is board_w / BOARD_N
\* (a float; the division by 8 is exact), kept here as the pair board_w, BOARD_N
BoardRegion(w, h, m) ==
    [ x0 |-> m, y0 |-> m, x1 |-> w - m, y1 |-> h - m,
      board_w |-> (w - m) - m, board_h |-> (h - m) - m ]

\* int(round(base + i * step)) with step = board / BOARD_N
Boundary_IntStep(base, i, board) == base + i * RoundHalfEven(board, BOARD_N)
Boundary(base, i, board) == RoundHalfEven(base * BOARD_N + i * board, BOARD_N)

\* lines 96-105: the bounds of the crop of (file_idx, rank_idx)
CropBounds_NoInvert(w, h, m, f, r) ==
    LET R == BoardRegion(w, h, m)
        img_rank == r
    IN  [ xa |-> Boundary(R.x0, f, R.board_w),
          xb |-> Boundary(R.x0, f + 1, R.board_w),
          ya |-> Boundary(R.y0, img_rank, R.board_h),
          yb |-> Boundary(R.y0, img_rank + 1, R.board_h) ]
CropBounds(w, h, m, f, r) ==
    LET R == BoardRegion(w, h, m)
        img_rank == (BOARD_N - 1) - r
    IN  [ xa |-> Boundary(R.x0, f, R.board_w),
          xb |-> Boundary(R.x0, f + 1, R.board_w),
          ya |-> Boundary(R.y0, img_rank, R.board_h),
          yb |-> Boundary(R.y0, img_rank + 1, R.board_h) ]

\* the sizes of a warped image: OUTPUT_SIZE, and small ones whose board
\* region is not empty
ImageSides(m) == { OUTPUT_SIZE } \cup { 2 * m + b : b \in 1..MaxBoard }

Margins == { MARGIN_PX } \cup 0..MaxMargin

InitGrid ==
    /\ g_margin \in Margins
    /\ warped_image \in
          { [ readable |-> FALSE, w |-> 0, h |-> 0 ] }
            \cup { [ readable |-> TRUE, w |-> a, h |-> b ] :
                     a \in ImageSides(g_margin), b \in ImageSides(g_margin) }
    /\ gpc = "start"
    /\ file_idx = 0
    /\ rank_idx = 0
    /\ crops = << >>
    /\ crop_writes = 0
    /\ overlay_written = FALSE
    /\ FORCE_PATTERN = NoneVal
    /\ images = << >>
    /\ cpc = "idle"
    /\ err = NoError
    /\ patterns = << >>
    /\ pattern_success = << >>
    /\ idx = 0
    /\ tried = {}
    /\ pattern = NoneVal
    /\ imgpoints = << >>
    /\ good = 0
    /\ fit_input = NoneVal
    /\ fit_calls = 0
    /\ artifact = NoArtifact
    /\ save_count = 0
    /\ w_size = OUTPUT_SIZE
    /\ w_margin = MARGIN_PX
    /\ wpc = "idle"
    /\ clicked = << >>
    /\ key = NO_KEY
    /\ H_calls = 0
    /\ dst = NoneVal
    /\ out_warped = NoFile
    /\ out_writes = 0
    /\ need_msg = FALSE

\* lines 41-76: cv2.imread of the warped image, the region, the overlay's
\* border and lines, and the entry of the loops
LoadWarped ==
    /\ gpc = "start"
    /\ gpc' = IF warped_image.readable THEN "slicing" ELSE "failed"
    /\ UNCHANGED << calibVars, warpVars, g_margin, warped_image, file_idx,
                    rank_idx, crops, crop_writes, overlay_written >>

\* lines 94-118: one iteration of the inner loop. cv2.imwrite raises on an
\* empty crop
SliceSquare ==
    /\ gpc = "slicing"
    /\ file_idx < BOARD_N
    /\ LET b == CropBounds(warped_image.w, warped_image.h, g_margin, file_idx, rank_idx)
           name == square_name(file_idx, rank_idx)
       IN  IF b.ya >= b.yb \/ b.xa >= b.xb
           THEN /\ gpc' = "failed"
                /\ UNCHANGED << crops, crop_writes, file_idx, rank_idx >>
           ELSE /\ crops' = [ n \in DOMAIN crops \cup { name } |->
                                IF n = name
                                THEN [ file_idx |-> file_idx, rank_idx |-> rank_idx,
                                       rows |-> << b.ya, b.yb >>,
                                       cols |-> << b.xa, b.xb >> ]
                                ELSE crops[n] ]
                /\ crop_writes' = crop_writes + 1
                /\ IF rank_idx + 1 < BOARD_N
                   THEN /\ rank_idx' = rank_idx + 1
                        /\ file_idx' = file_idx
                   ELSE /\ rank_idx' = 0
                        /\ file_idx' = file_idx + 1
                /\ gpc' = gpc
    /\ UNCHANGED << calibVars, warpVars, g_margin, warped_image, overlay_written >>

\* lines 120-124: the overlay is written after the loops
SaveOverlay ==
    /\ gpc = "slicing"
    /\ file_idx >= BOARD_N
    /\ overlay_written' = TRUE
    /\ gpc' = "done"
    /\ UNCHANGED << calibVars, warpVars, g_margin, warped_image, file_idx,
                    rank_idx, crops, crop_writes >>

(***************************************************************************)
(* Specifications: one per script                                          *)
(***************************************************************************)
NextCalib ==
    \/ Start
    \/ TallyImage
    \/ SelectPattern
    \/ CollectImage
    \/ CheckSamples
    \/ Fit
    \/ Save

SpecCalib == InitCalib /\ [][NextCalib]_vars

NextWarp ==
    \/ LoadImage
    \/ mouse_cb
    \/ WaitKey
    \/ HandleKey

SpecWarp == InitWarp /\ [][NextWarp]_vars

NextGrid ==
    \/ LoadWarped
    \/ SliceSquare
    \/ SaveOverlay

SpecGrid == InitGrid /\ [][NextGrid]_vars

(***************************************************************************)
(* Properties of calibration.py (checked under SpecCalib)                  *)
(***************************************************************************)
\* the Corner Detector succeeds on image i with pattern p
Detected(i, p) == images[i].readable /\ p \in images[i].found

\* the images on which the Corner Detector succeeds with p
DetectedOn(p) == { i \in 1..Len(images) : Detected(i, p) }

\* position of p in the candidate list
PosOf(p) == CHOOSE k \in 1..Len(patterns) : patterns[k] = p

\* the images on which p is the earliest candidate that is detected
FirstDetectedOn(p) ==
    { i \in DetectedOn(p) : \A j \in 1..(PosOf(p) - 1) : ~ Detected(i, patterns[j]) }

FreeChoice == FORCE_PATTERN = NoneVal

\* main() has passed the input checks and its selection step (lines 108-125)
SelectionDone ==
    \/ cpc \in { "second_pass", "fit", "save", "done" }
    \/ cpc = "failed" /\ err \notin { "NoImages", "FirstImageUnreadable" }

AnyDetection == \E i \in 1..Len(images) : \E p \in Range(PATTERNS_TO_TRY) : Detected(i, p)

\* C1: in free-choice mode, once the Geometry Selector has run over the
\* images: with no candidate detected on any image the run has failed with
\* DetectionExhausted and the solver is never called; with a candidate
\* detected on some image the selection has ended with a chosen candidate.
\* Without a detection the solver is not called in any state of the run.
C1_ExhaustedOrChosen ==
    FreeChoice =>
      /\ ~ AnyDetection => fit_calls = 0 /\ cpc \notin { "fit", "save", "done" }
      /\ SelectionDone =>
           IF ~ AnyDetection
           THEN cpc = "failed" /\ err = "DetectionExhausted" /\ pattern = NoneVal
           ELSE /\ pattern \in Range(PATTERNS_TO_TRY)
                /\ err \in { NoError, "InsufficientSamples" }

C1_Witness ==
    /\ FreeChoice
    /\ Len(images) >= 2
    /\ err = "DetectionExhausted"
    /\ \A i \in 1..Len(images) : images[i].readable

\* C2: in free-choice mode the chosen geometry has the largest tally of
\* all candidates, and no candidate listed before it has the same tally.
C2_MaxTallyEarliest ==
    (FreeChoice /\ pattern # NoneVal) =>
      \A q \in Range(patterns) :
        /\ pattern_success[pattern] >= pattern_success[q]
        /\ pattern_success[q] = pattern_success[pattern] => PosOf(pattern) <= PosOf(q)

C2_Witness ==
    /\ FreeChoice
    /\ pattern # NoneVal
    /\ pattern_success[pattern] > 0
    /\ \E q \in Range(patterns) :
         q # pattern /\ pattern_success[q] = pattern_success[pattern]

\* the samples that survive for the chosen geometry
Survivors == DetectedOn(pattern)

\* C3: once a geometry is chosen and the second pass is over, fewer than 3
\* surviving samples end the run with InsufficientSamples and no fit is
\* attempted; with 3 or more the run goes on to one fit, over all the
\* surviving samples.
C3_SampleThreshold ==
    /\ err = "InsufficientSamples" =>
         /\ cpc = "failed"
         /\ good = Cardinality(Survivors)
         /\ good < 3
         /\ fit_calls = 0
    /\ cpc \in { "fit", "save", "done" } =>
         /\ good = Cardinality(Survivors)
         /\ good >= 3
    /\ cpc \in { "save", "done" } =>
         /\ fit_calls = 1
         /\ Len(fit_input) = good
         /\ Range(fit_input) = Survivors

C3_Witness == cpc = "done" /\ good = 3 /\ fit_calls = 1 /\ Len(fit_input) = 3

\* C6: the calibration artifact is written at most once, never on a run
\* that has failed, and only after the input checks, the selection and the
\* sample check have passed and the fit has returned.
C6_NoArtifactOnFailure ==
    /\ save_count <= 1
    /\ artifact.exists <=> save_count = 1
    /\ cpc = "failed" => save_count = 0
    /\ err # NoError => cpc = "failed"
    /\ save_count = 1 =>
         /\ cpc = "done"
         /\ images # << >> /\ images[1].readable
         /\ pattern_success[pattern] > 0
         /\ good >= 3
         /\ fit_calls = 1

C6_Witness ==
    /\ cpc = "failed"
    /\ err = "InsufficientSamples"
    /\ good = 2
    /\ ~ artifact.exists

\* C7: with a forced geometry only that geometry is tried and tallied; with
\* no detection of it the run fails with ForcedGeometryFailed (never with
\* DetectionExhausted); with a detection it is the chosen geometry.
C7_ForcedGeometry ==
    ~ FreeChoice =>
      /\ err # "DetectionExhausted"
      /\ \A t \in tried : t[2] = FORCE_PATTERN
      /\ cpc \notin { "start", "failed" } => DOMAIN pattern_success = { FORCE_PATTERN }
      /\ SelectionDone =>
           IF DetectedOn(FORCE_PATTERN) = {}
           THEN cpc = "failed" /\ err = "ForcedGeometryFailed"
           ELSE pattern = FORCE_PATTERN /\ err \in { NoError, "InsufficientSamples" }

C7_Witness ==
    /\ ~ FreeChoice
    /\ err = "ForcedGeometryFailed"
    /\ Len(images) >= 2
    /\ tried # {}

\* C8 as stated: the chosen geometry is detected on at least as many images
\* as any other candidate.
C8_MostDetections ==
    (FreeChoice /\ pattern # NoneVal) =>
      \A G \in Range(patterns) :
        Cardinality(DetectedOn(pattern)) >= Cardinality(DetectedOn(G))

\* C8 (amended): in free-choice mode, for every candidate G, the number of
\* images on which the chosen geometry is the earliest candidate detected is
\* at least the number of images on which G is the earliest candidate detected.
C8_MostFirstDetections ==
    (FreeChoice /\ pattern # NoneVal) =>
      \A G \in Range(patterns) :
        Cardinality(FirstDetectedOn(pattern)) >= Cardinality(FirstDetectedOn(G))

C8_Witness ==
    /\ FreeChoice
    /\ pattern # NoneVal
    /\ \E G \in Range(patterns) :
         Cardinality(DetectedOn(G)) > Cardinality(DetectedOn(pattern))

\* the images the first loop has passed
Tallied == IF cpc = "first_pass" THEN 1..(idx - 1)
           ELSE IF cpc = "start" THEN {}
           ELSE 1..Len(images)

RECURSIVE SumTallies(_, _)
SumTallies(succ, ps) ==
    IF ps = {} THEN 0
    ELSE LET p == CHOOSE q \in ps : TRUE
         IN  succ[p] + SumTallies(succ, ps \ { p })

\* the candidates tried on image i: none when it cannot be read; else the
\* candidates in list order up to the first one detected, all when none is
TriedOn(i) == { t[2] : t \in { u \in tried : u[1] = i } }

\* C11: in the tallying pass the candidates are tried on each image in list
\* order up to the first that detects: the tally of a candidate is the
\* number of passed images on which it is the earliest candidate detected,
\* an unreadable image is tried with no candidate and counts for none, and
\* the sum of the tallies is at most the number of passed images.
C11_FirstSuccessTally ==
    cpc \notin { "idle", "start" } /\ err \notin { "NoImages", "FirstImageUnreadable" } =>
      /\ \A i \in Tallied :
           IF ~ images[i].readable
           THEN TriedOn(i) = {}
           ELSE \E k \in 1..Len(patterns) :
                  /\ TriedOn(i) = { patterns[j] : j \in 1..k }
                  /\ \A j \in 1..(k - 1) : ~ Detected(i, patterns[j])
                  /\ k < Len(patterns) => Detected(i, patterns[k])
      /\ \A i \in (1..Len(images)) \ Tallied : TriedOn(i) = {}
      /\ \A p \in Range(patterns) :
           pattern_success[p] = Cardinality(FirstDetectedOn(p) \cap Tallied)
      /\ \A i \in Tallied :
           Cardinality({ p \in Range(patterns) : i \in FirstDetectedOn(p) }) <= 1
      /\ SumTallies(pattern_success, DOMAIN pattern_success) <= Cardinality(Tallied)
      /\ Cardinality(Tallied) <= Len(images)

\* the pass is over; one image shows two candidates, a later one cannot be
\* read, and the tallies sum to less than the number of images
C11_Witness ==
    /\ FreeChoice
    /\ cpc = "second_pass"
    /\ Len(images) = 3
    /\ \E i \in 1..Len(images) : Cardinality(images[i].found) = 2
    /\ \E i \in 1..Len(images) : ~ images[i].readable
    /\ SumTallies(pattern_success, DOMAIN pattern_success) = 2

(***************************************************************************)
(* Properties of grid_slice.py (checked under SpecGrid)                    *)
(***************************************************************************)
\* the standard board labels a1..h8
StandardLabels ==
    { l \o d : l \in { "a", "b", "c", "d", "e", "f", "g", "h" },
               d \in { "1", "2", "3", "4", "5", "6", "7", "8" } }

\* the (file_idx, rank_idx) pairs the loops have passed
CellsDone ==
    { << f, r >> \in (0..7) \X (0..7) :
        f < file_idx \/ (f = file_idx /\ r < rank_idx) }

\* C4: for N = 8 the names given to the 64 cells are pairwise distinct and
\* are exactly a1..h8: every write of a crop makes a new file (none is
\* overwritten), each file holds the crop of the cell it is named after, and
\* a finished run has written 64 crops, one per standard label.
C4_NamesBijective ==
    /\ crop_writes = Cardinality(DOMAIN crops)
    /\ DOMAIN crops \subseteq StandardLabels
    /\ gpc \in { "slicing", "done" } =>
         /\ crop_writes = Cardinality(CellsDone)
         /\ \A c \in CellsDone :
              /\ square_name(c[1], c[2]) \in DOMAIN crops
              /\ crops[square_name(c[1], c[2])].file_idx = c[1]
              /\ crops[square_name(c[1], c[2])].rank_idx = c[2]
    /\ gpc = "done" =>
         /\ crop_writes = 64
         /\ DOMAIN crops = StandardLabels

C4_Witness ==
    /\ gpc = "done"
    /\ Cardinality(DOMAIN crops) = 64
    /\ crops["a1"].file_idx = 0 /\ crops["a1"].rank_idx = 7
    /\ crops["h8"].file_idx = 7 /\ crops["h8"].rank_idx = 0

Abs(x) == IF x < 0 THEN -x ELSE x

\* v is an integer nearest to num / den (den > 0)
NearestTo(v, num, den) == 2 * Abs(den * v - num) <= den

\* C10: the crop of cell (file_idx, rank_idx) takes the image rows from
\* round(y0 + (N-1-rank_idx)*step) up to, not including,
\* round(y0 + (N-rank_idx)*step) and the columns from round(x0 + file_idx*step)
\* up to, not including, round(x0 + (file_idx+1)*step), with x0 = y0 = margin
\* and step = (side - 2*margin) / N; a higher rank lies on rows above a lower
\* one; and with size 1024, margin 136, N = 8 the step is 94 and the cell
\* (0, 7) spans the rows [136, 230).
C10_RankBottomToTop ==
    LET N   == 8
        x0  == g_margin
        y0  == g_margin
        bw  == warped_image.w - 2 * g_margin
        bh  == warped_image.h - 2 * g_margin
    IN  /\ \A n \in DOMAIN crops :
             LET c == crops[n]
             IN  /\ NearestTo(c.rows[1], N * y0 + (N - 1 - c.rank_idx) * bh, N)
                 /\ NearestTo(c.rows[2], N * y0 + (N - c.rank_idx) * bh, N)
                 /\ NearestTo(c.cols[1], N * x0 + c.file_idx * bw, N)
                 /\ NearestTo(c.cols[2], N * x0 + (c.file_idx + 1) * bw, N)
                 /\ c.rows[1] < c.rows[2] /\ c.cols[1] < c.cols[2]
        /\ \A n1 \in DOMAIN crops, n2 \in DOMAIN crops :
             (crops[n1].file_idx = crops[n2].file_idx
                /\ crops[n1].rank_idx < crops[n2].rank_idx)
               => crops[n2].rows[2] <= crops[n1].rows[1]
        /\ (g_margin = 136 /\ warped_image.w = 1024 /\ warped_image.h = 1024) =>
             /\ bh = 8 * 94
             /\ \A n \in DOMAIN crops :
                  (crops[n].file_idx = 0 /\ crops[n].rank_idx = 7)
                     => crops[n].rows = << 136, 230 >> /\ crops[n].cols = << 136, 230 >>

C10_Witness ==
    /\ gpc = "done"
    /\ g_margin = 136 /\ warped_image.w = 1024 /\ warped_image.h = 1024
    /\ \E n \in DOMAIN crops :
         /\ crops[n].file_idx = 0 /\ crops[n].rank_idx = 7
         /\ crops[n].rows = << 136, 230 >>

\* every pixel index of lo..hi-1 lies in exactly one of the intervals iv[k],
\* each a pair << first, end >> with the end excluded
AxisTiled(lo, hi, iv) ==
    \A x \in lo..(hi - 1) :
      Cardinality({ k \in DOMAIN iv : iv[k][1] <= x /\ x < iv[k][2] }) = 1

\* C12: for an image whose board region is not empty the 8 x 8 crops tile
\* the region: on each axis the end of a cell is the start of the next one,
\* the first boundary is the margin and the last is the side minus the
\* margin, every column (row) of the region lies in the interval of exactly
\* one file (rank), and every crop written lies inside the region with the
\* bounds of its cell.
C12_CropsTileRegion ==
    (warped_image.readable
       /\ warped_image.w > 2 * g_margin /\ warped_image.h > 2 * g_margin) =>
      LET w == warped_image.w
          h == warped_image.h
          m == g_margin
          Cells == [ c \in (0..7) \X (0..7) |-> CropBounds(w, h, m, c[1], c[2]) ]
          B(f, r) == Cells[<< f, r >>]
      IN  /\ \A f \in 0..7, r \in 0..7 :
               /\ B(f, r).xa <= B(f, r).xb
               /\ B(f, r).ya <= B(f, r).yb
               /\ f < 7 => B(f, r).xb = B(f + 1, r).xa
               /\ r < 7 => B(f, r + 1).yb = B(f, r).ya
               /\ B(0, r).xa = m
               /\ B(7, r).xb = w - m
               /\ B(f, 7).ya = m
               /\ B(f, 0).yb = h - m
          /\ AxisTiled(m, w - m, [ f \in 0..7 |-> << B(f, 0).xa, B(f, 0).xb >> ])
          /\ AxisTiled(m, h - m, [ r \in 0..7 |-> << B(0, r).ya, B(0, r).yb >> ])
          /\ \A n \in DOMAIN crops :
               LET c == crops[n]
                   b == B(c.file_idx, c.rank_idx)
               IN  /\ c.rows = << b.ya, b.yb >>
                   /\ c.cols = << b.xa, b.xb >>
                   /\ m <= c.cols[1] /\ c.cols[2] <= w - m
                   /\ m <= c.rows[1] /\ c.rows[2] <= h - m
          /\ gpc = "done" =>
               /\ \A x \in m..(w - m - 1) :
                    Cardinality({ crops[n].file_idx : n \in
                      { k \in DOMAIN crops :
                          crops[k].cols[1] <= x /\ x < crops[k].cols[2] } }) = 1
               /\ \A y \in m..(h - m - 1) :
                    Cardinality({ crops[n].rank_idx : n \in
                      { k \in DOMAIN crops :
                          crops[k].rows[1] <= y /\ y < crops[k].rows[2] } }) = 1

\* a finished run on an image whose cell boundaries fall on halves and
\* between pixels
C12_Witness ==
    /\ gpc = "done"
    /\ crop_writes = 64
    /\ (warped_image.w - 2 * g_margin) % 8 = 4
    /\ (warped_image.h - 2 * g_margin) % 8 \notin { 0, 4 }

(***************************************************************************)
(* Properties of manual_warp.py (checked under SpecWarp)                   *)
(***************************************************************************)
\* C5: a confirm (Enter) handled while the click buffer does not hold
\* exactly 4 points computes no transform, writes no output, leaves the
\* buffer as it is and returns to waiting for events.
C5_ConfirmRejected ==
    [][ (wpc = "handle" /\ key \in { 13, 10 } /\ Len(clicked) # 4) =>
          /\ clicked' = clicked
          /\ H_calls' = H_calls
          /\ dst' = dst
          /\ out_warped' = out_warped
          /\ out_writes' = out_writes
          /\ wpc' = "wait" ]_vars

\* a confirm was rejected, and a later confirm with 4 points was carried out
C5_Witness ==
    /\ need_msg
    /\ wpc = "warped"
    /\ Len(clicked) = 4
    /\ out_writes = 1
    /\ H_calls = 1

\* C9 as stated: the destination points are (m,m), (S-m,m), (S-m,S-m),
\* (m,S-m), the corners of the region the Grid Decomposer slices.
C9_DstIsRegionCorners ==
    wpc = "warped" =>
      LET S == w_size
          m == w_margin
          R == BoardRegion(S, S, m)
      IN  /\ dst = << << m, m >>, << S - m, m >>, << S - m, S - m >>, << m, S - m >> >>
          /\ dst = << << R.x0, R.y0 >>, << R.x1, R.y0 >>, << R.x1, R.y1 >>, << R.x0, R.y1 >> >>

\* C9 (amended): for output size S and margin m the destination points, in
\* TL/TR/BR/BL order, are (m,m), (S-1-m,m), (S-1-m,S-1-m), (m,S-1-m): the
\* first and the last pixel, on each axis, of the region [m, S-m) that the
\* Grid Decomposer slices when it is configured with the same S and m.
C9_DstIsRegionPixels ==
    wpc = "warped" =>
      LET S == w_size
          m == w_margin
          R == BoardRegion(S, S, m)
      IN  /\ dst = << << m, m >>, << S - 1 - m, m >>,
                      << S - 1 - m, S - 1 - m >>, << m, S - 1 - m >> >>
          /\ dst = << << R.x0, R.y0 >>, << R.x1 - 1, R.y0 >>,
                      << R.x1 - 1, R.y1 - 1 >>, << R.x0, R.y1 - 1 >> >>
          /\ out_warped.dst = dst
          /\ out_warped.size = << S, S >>

C9_Witness ==
    /\ wpc = "warped"
    /\ w_size = 1024 /\ w_margin = 136
    /\ dst = << << 136, 136 >>, << 887, 136 >>, << 887, 887 >>, << 136, 887 >> >>

\* C13: in every state of the session the click buffer holds at most 4
\* points, in their order of arrival. While main() waits for a key, a left
\* click at any pixel can be taken when the buffer holds fewer than 4
\* points, an event that changes the buffer appends one point at its end,
\* and the buffer is left as it is once it holds 4. A reset (r) empties the
\* buffer; no other key (confirm, abort, none) changes it.
C13_ClickBuffer ==
    /\ [](Len(clicked) <= 4)
    /\ []((wpc = "wait" /\ Len(clicked) < 4) =>
            \A p \in (0..MaxCoord) \X (0..MaxCoord) :
              ENABLED (NextWarp /\ wpc' = "wait" /\ clicked' = Append(clicked, p)))
    /\ [][ /\ (wpc = "wait" /\ wpc' = "wait") =>
                IF Len(clicked) < 4
                THEN \/ clicked' = clicked
                     \/ /\ Len(clicked') = Len(clicked) + 1
                        /\ SubSeq(clicked', 1, Len(clicked)) = clicked
                ELSE clicked' = clicked
           /\ (wpc = "wait" /\ wpc' # "wait") => clicked' = clicked
           /\ (wpc = "handle" /\ key = 114) => clicked' = << >> /\ wpc' = "wait"
           /\ (wpc = "handle" /\ key # 114) => clicked' = clicked
           /\ wpc \notin { "wait", "handle" } => clicked' = clicked ]_vars

\* the buffer holds four points in the order they were clicked, and the
\* reset key has been read
C13_Witness ==
    /\ wpc = "handle"
    /\ key = 114
    /\ clicked = << << 0, 0 >>, << 1, 0 >>, << 1, 1 >>, << 0, 1 >> >>

=============================================================================
